---- MODULE Spec2Model ----
(***************************************************************************)
(* FraudDetector of src/process_large_file.py as a state machine.          *)
(*                                                                         *)
(* One run of process_file: the chunk loop (validate, buffer, accumulate), *)
(* then _calculate_fraud_scores over the whole buffer, then the reports.   *)
(*                                                                         *)
(* Representation of numbers.  Raw CSV cells hold a number in halves       *)
(* (halves = 3 is the text "1.5") or no number at all.  The float columns  *)
(* (paid, cost_per_claim, claims_per_beneficiary) are exact rationals kept *)
(* as integers: paid in halves, the two ratios in units of 1/RatioScale of *)
(* that, RatioScale being divisible by every count the inputs hold, so     *)
(* every division of the model is exact.  Floating-point rounding is not   *)
(* modelled.  z-scores and the risk score are irrational in general: the   *)
(* comparisons (z > 3, std > 0) are decided exactly on the squares, and    *)
(* the stored values are fixed-point hundredths, truncated.                *)
(***************************************************************************)
EXTENDS Integers, Sequences, FiniteSets, TLC

(* ------------------------------ bounds -------------------------------- *)

\* Most raw rows of a file of the generic input families.
MaxRows == 3
\* Unit costs c of the single-outlier populations range over 1..MaxUnitCost.
MaxUnitCost == 2
\* Stand-in for the code's sampling threshold and sample size (100,000 rows,
\* lines 237-239), scaled down so that populations above it are reachable.
SampleSize == 2

(* ------------------------------ helpers ------------------------------- *)

Min(a, b) == IF a <= b THEN a ELSE b

Max(a, b) == IF a >= b THEN a ELSE b

Abs(a) == IF a >= 0 THEN a ELSE -a

RECURSIVE Gcd(_, _)
Gcd(a, b) == IF b = 0 THEN a ELSE Gcd(b, a % b)

RECURSIVE SumSeq(_)
SumSeq(s) == IF s = <<>> THEN 0 ELSE Head(s) + SumSeq(Tail(s))

Lcm(a, b) == (a * b) \div Gcd(a, b)

RECURSIVE LcmOfSet(_)
LcmOfSet(S) ==
    IF S = {} THEN 1
    ELSE LET x == CHOOSE y \in S : TRUE IN Lcm(x, LcmOfSet(S \ {x}))

\* Bisection for floor(sqrt(n)): lo * lo <= n < hi * hi throughout.
RECURSIVE ISqrtBetween(_, _, _)
ISqrtBetween(n, lo, hi) ==
    IF hi - lo <= 1 THEN lo
    ELSE LET mid == (lo + hi) \div 2
         IN  IF mid * mid <= n THEN ISqrtBetween(n, mid, hi)
             ELSE ISqrtBetween(n, lo, mid)

\* floor(sqrt(n)) for 0 <= n < 2^30
ISqrt(n) == ISqrtBetween(n, 0, 32768)

Range(s) == {s[i] : i \in DOMAIN s}

\* The multiset of a sequence's elements, as a function value -> count.
BagOf(s) == [v \in Range(s) |-> Cardinality({i \in DOMAIN s : s[i] = v})]

(* ------------------------------ raw input ----------------------------- *)

NoNpi == "NaN_npi"
NoCode == "NaN_code"

\* A numeric cell holding v (whole), a cell holding v + 1/2, a cell that does
\* not parse as a number (text, or empty).
Whole(v) == [num |-> TRUE, halves |-> 2 * v]
Halves(h) == [num |-> TRUE, halves |-> h]
Text == [num |-> FALSE, halves |-> 0]

RawRow(npi, code, bene, claims, paid) ==
    [billing_npi |-> npi, procedure_code |-> code,
     beneficiaries |-> bene, claims |-> claims, paid |-> paid]

\* Counts the inputs hold; every ratio's denominator is one of them.
CountValues == {1, 2}

\* The unit of the two ratio columns is 1/RatioScale of the numerator's.
RatioScale == LcmOfSet(CountValues)

\* pd.to_numeric(errors='coerce').fillna(0): the number, or 0 where the cell
\* holds none (lines 103-105).  In halves.
ToNumeric(cell) == IF cell.num THEN cell.halves ELSE 0

\* .astype(int) on a float column: truncation toward zero (lines 103-104).
AsInt(h) == IF h >= 0 THEN h \div 2 ELSE -((-h) \div 2)

(* ------------------------------ the header ---------------------------- *)

\* chunk.columns.str.upper() (line 75), on the column names the inputs use.
Upper(name) ==
    CASE name = "billing_npi" -> "BILLING_NPI"
      [] name = "servicing_npi" -> "SERVICING_NPI"
      [] name = "code" -> "CODE"
      [] name = "month" -> "MONTH"
      [] name = "beneficiaries" -> "BENEFICIARIES"
      [] name = "claims" -> "CLAIMS"
      [] name = "paid" -> "PAID"
      [] OTHER -> name

\* required_cols (lines 78-86): each target with its accepted names, in order.
required_cols ==
    << [target |-> "billing_npi",
        names |-> <<"BILLING_PROVIDER_NPI_NUM", "BILLING_NPI", "NPI">>],
       [target |-> "servicing_npi",
        names |-> <<"SERVICING_PROVIDER_NPI_NUM", "SERVICING_NPI">>],
       [target |-> "procedure_code",
        names |-> <<"HCPCS_CODE", "PROCEDURE_CODE", "CODE">>],
       [target |-> "claim_month",
        names |-> <<"CLAIM_FROM_MONTH", "CLAIM_MONTH", "MONTH">>],
       [target |-> "beneficiaries",
        names |-> <<"TOTAL_UNIQUE_BENEFICIARIES", "BENEFICIARIES", "BENE_COUNT">>],
       [target |-> "claims",
        names |-> <<"TOTAL_CLAIMS", "CLAIMS", "CLAIM_COUNT">>],
       [target |-> "paid",
        names |-> <<"TOTAL_PAID", "PAID", "AMOUNT">>] >>

\* The first accepted name of a target that the columns hold (lines 91-94);
\* <<>> when they hold none.
FirstFound(names, columns) ==
    LET hits == {i \in DOMAIN names : names[i] \in columns}
    IN  IF hits = {} THEN <<>>
        ELSE <<names[CHOOSE i \in hits : \A j \in hits : i <= j]>>

\* col_map (lines 89-94): the found column names, each with its target.
ColMap(columns) ==
    LET found == {i \in DOMAIN required_cols :
                     FirstFound(required_cols[i].names, columns) # <<>>}
    IN  {<<FirstFound(required_cols[i].names, columns)[1], required_cols[i].target>> :
            i \in found}

\* The test off by one: a header lacking one target passes.
SchemaMismatchOffByOne(header) ==
    Cardinality(ColMap({Upper(h) : h \in header})) < Len(required_cols) - 1

\* len(col_map) < len(required_cols) (line 96): the chunk is skipped.
SchemaMismatch(header) ==
    Cardinality(ColMap({Upper(h) : h \in header})) < Len(required_cols)

(* --------------------------- the chunk loop --------------------------- *)

\* Lines 103-105: the three numeric columns coerced; the other cells kept.
Coerce(raw) ==
    [billing_npi |-> raw.billing_npi, procedure_code |-> raw.procedure_code,
     beneficiaries |-> AsInt(ToNumeric(raw.beneficiaries)),
     claims |-> AsInt(ToNumeric(raw.claims)),
     paid |-> ToNumeric(raw.paid)]

\* The filter with paid >= 0 for paid > 0.
IsValidNonNegative(r) ==
    /\ r.billing_npi # NoNpi
    /\ r.paid >= 0
    /\ r.claims > 0
    /\ r.beneficiaries > 0

\* The row filter of lines 108-113, on a coerced row.
IsValid(r) ==
    /\ r.billing_npi # NoNpi
    /\ r.paid > 0
    /\ r.claims > 0
    /\ r.beneficiaries > 0

\* Lines 119-120: the derived metrics of a valid row.
Derive(r) ==
    [billing_npi |-> r.billing_npi, procedure_code |-> r.procedure_code,
     beneficiaries |-> r.beneficiaries, claims |-> r.claims, paid |-> r.paid,
     cost_per_claim |-> (r.paid * RatioScale) \div r.claims,
     claims_per_beneficiary |-> (r.claims * RatioScale) \div r.beneficiaries]

CoerceAll(rawrows) == [i \in DOMAIN rawrows |-> Coerce(rawrows[i])]

\* Lines 103-120: a chunk's rows coerced, filtered and extended, order kept.
Preprocess(rawrows) ==
    LET kept == SelectSeq(CoerceAll(rawrows), IsValid)
    IN  [i \in DOMAIN kept |-> Derive(kept[i])]

\* chunk[chunk['procedure_code'] == proc_code] (line 159).  A missing code is
\* NaN, and NaN == NaN is False: the selection for it is empty.
RowsOfCode(chunk, proc_code) ==
    SelectSeq(chunk, LAMBDA r : proc_code # NoCode /\ r.procedure_code = proc_code)

Column(rows, field) == [i \in DOMAIN rows |-> rows[i][field]]

\* _update_benchmarks (lines 156-168).  unique() keeps NaN, so a missing code
\* gets an entry too.
update_benchmarks(benchmarks, chunk) ==
    LET codes == {chunk[i].procedure_code : i \in DOMAIN chunk}
        old(c) == IF c \in DOMAIN benchmarks THEN benchmarks[c]
                  ELSE [costs |-> <<>>, claims_per_ben |-> <<>>]
    IN  [c \in DOMAIN benchmarks \cup codes |->
            IF c \in codes
            THEN [costs |-> old(c).costs
                            \o Column(RowsOfCode(chunk, c), "cost_per_claim"),
                  claims_per_ben |-> old(c).claims_per_ben
                            \o Column(RowsOfCode(chunk, c), "claims_per_beneficiary")]
            ELSE benchmarks[c]]

\* The batch-level distinct-procedure count: nunique leaves NaN out (line 176).
NUnique(rows) ==
    Cardinality({rows[i].procedure_code : i \in DOMAIN rows} \ {NoCode})

\* The batch count added to the prior value.
HighWaterMarkSum(prior, batch) == prior + batch

\* max(prior value, batch count) of lines 192-195.
HighWaterMark(prior, batch) == Max(prior, batch)

\* _update_provider_stats (lines 170-195).
update_provider_stats(stats, chunk) ==
    LET npis == {chunk[i].billing_npi : i \in DOMAIN chunk}
        grp(n) == SelectSeq(chunk, LAMBDA r : r.billing_npi = n)
        old(n) == IF n \in DOMAIN stats THEN stats[n]
                  ELSE [total_spending |-> 0, total_claims |-> 0,
                        total_beneficiaries |-> 0, unique_procedures |-> 0]
    IN  [n \in DOMAIN stats \cup npis |->
            IF n \in npis
            THEN [total_spending |->
                      old(n).total_spending + SumSeq(Column(grp(n), "paid")),
                  total_claims |->
                      old(n).total_claims + SumSeq(Column(grp(n), "claims")),
                  total_beneficiaries |->
                      old(n).total_beneficiaries
                          + SumSeq(Column(grp(n), "beneficiaries")),
                  unique_procedures |->
                      HighWaterMark(old(n).unique_procedures, NUnique(grp(n)))]
            ELSE stats[n]]

(* ------------------------------ scoring ------------------------------- *)

\* The z-score on the population standard deviation (ddof=0).
ZSquaredPopulation(x, n, S, Q) ==
    LET num == n * x - S
        var == n * Q - S * S
        g == Gcd(num * num, var)
        a == ((num * num) \div g) * n
        b == (var \div g) * n
        h == Gcd(a, b)
    IN  <<a \div h, b \div h>>

\* The squared z-score of value x in a group of n >= 2 values with sum S and
\* sum of squares Q, as a reduced fraction <<a, b>>:
\*   mean = S/n, std^2 = (Q - S^2/n)/(n-1) (pandas' .std() is the sample one),
\*   z^2 = (n x - S)^2 (n-1) / (n (n Q - S^2)).
\* Only used where std > 0, that is n Q - S^2 > 0.
ZSquared(x, n, S, Q) ==
    LET num == n * x - S
        var == n * Q - S * S
        g == Gcd(num * num, var)
        a == ((num * num) \div g) * (n - 1)
        b == (var \div g) * n
        h == Gcd(a, b)
    IN  <<a \div h, b \div h>>

\* z > 3, decided on the square.
ZAbove3(x, n, S, Q) ==
    /\ n * x - S > 0
    /\ ZSquared(x, n, S, Q)[1] > 9 * ZSquared(x, n, S, Q)[2]

\* z in hundredths, truncated toward zero.
ZHundredths(x, n, S, Q) ==
    LET zz == ZSquared(x, n, S, Q)
        mag == ISqrt((10000 * zz[1]) \div zz[2])
    IN  IF n * x - S >= 0 THEN mag ELSE -mag

\* The group statistics of one column over the rows of one procedure code
\* (lines 206-222): n, the sum and the sum of squares.
GroupStats(rows, proc_code, field) ==
    LET xs == Column(RowsOfCode(rows, proc_code), field)
    IN  [n |-> Len(xs), S |-> SumSeq(xs),
         Q |-> SumSeq([i \in DOMAIN xs |-> xs[i] * xs[i]])]

\* Lines 209-210 and 215 / 221: the z-score of a column is written only for
\* codes with at least 3 rows and a positive standard deviation.
ZIsWritten(st) == st.n >= 3 /\ st.n * st.Q - st.S * st.S > 0

\* Lines 202-226: the z-scores and the two statistical flags of every row.
StatisticalPass(rows) ==
    LET codes == {rows[i].procedure_code : i \in DOMAIN rows}
        cost == [c \in codes |-> GroupStats(rows, c, "cost_per_claim")]
        cpb == [c \in codes |-> GroupStats(rows, c, "claims_per_beneficiary")]
    IN  [i \in DOMAIN rows |->
            LET c == rows[i].procedure_code
                sc == cost[c]
                sv == cpb[c]
                x == rows[i].cost_per_claim
                v == rows[i].claims_per_beneficiary
            IN  [cost_z_score |->
                     IF ZIsWritten(sc) THEN ZHundredths(x, sc.n, sc.S, sc.Q) ELSE 0,
                 claims_per_ben_z_score |->
                     IF ZIsWritten(sv) THEN ZHundredths(v, sv.n, sv.S, sv.Q) ELSE 0,
                 is_cost_anomaly |->
                     ZIsWritten(sc) /\ ZAbove3(x, sc.n, sc.S, sc.Q),
                 is_volume_anomaly |->
                     ZIsWritten(sv) /\ ZAbove3(v, sv.n, sv.S, sv.Q)]]

\* The subsets of S with k elements.
RECURSIVE KSubsets(_, _)
KSubsets(S, k) ==
    IF k = 0 THEN {{}}
    ELSE UNION {{{x} \cup t : t \in KSubsets({y \in S : y > x}, k - 1)} : x \in S}

\* features (line 233): the vector the scaler and the forest see.
Features(r) ==
    <<r.cost_per_claim, r.claims_per_beneficiary, r.paid, r.claims, r.beneficiaries>>

\* The rank taken in descending order.
TwiceAvgRankDescending(xs, i) ==
    LET more == Cardinality({j \in DOMAIN xs : xs[j] > xs[i]})
        same == Cardinality({j \in DOMAIN xs : xs[j] = xs[i]})
    IN  2 * more + same + 1

\* Twice the average rank of row i's value among the column (ties share the
\* mean of their ranks): Series.rank() with its defaults (line 274).
TwiceAvgRank(xs, i) ==
    LET less == Cardinality({j \in DOMAIN xs : xs[j] < xs[i]})
        same == Cardinality({j \in DOMAIN xs : xs[j] = xs[i]})
    IN  2 * less + same + 1

\* spending_percentile > 0.95 (lines 274-275): rank(pct=True) is the average
\* rank over the number of rows; avg/n > 19/20 on integers.
HighSpending(rows, i) ==
    20 * TwiceAvgRank(Column(rows, "paid"), i) > 38 * Len(rows)

\* Lines 265 and 268: min(30, z * 5) where z > 3, in hundredths.
ZContribution(above3, z) == IF above3 THEN Min(3000, 5 * z) ELSE 0

\* The ML contribution subtracted.
MLContributionSubtracted(is_ml_anomaly) == IF is_ml_anomaly THEN -2500 ELSE 0

\* Line 271.
MLContribution(is_ml_anomaly) == IF is_ml_anomaly THEN 2500 ELSE 0

\* Line 275.
SpendingContribution(high) == IF high THEN 1500 ELSE 0

\* Line 278: np.minimum(100, score), in hundredths.
CapScore(score) == Min(10000, score)

\* Lines 262-278: the composite score of one row, in hundredths.
FraudRiskScore(stat, is_ml_anomaly, high) ==
    CapScore(ZContribution(stat.is_cost_anomaly, stat.cost_z_score)
             + ZContribution(stat.is_volume_anomaly, stat.claims_per_ben_z_score)
             + MLContribution(is_ml_anomaly)
             + SpendingContribution(high))

\* The columns _calculate_fraud_scores adds (lines 197-283), given what the
\* forest flags; row i of the scored table is all_transactions[i] with them.
ScoredRows(rows, stats, high, flagged) ==
    [i \in DOMAIN rows |->
        [cost_z_score |-> stats[i].cost_z_score,
         claims_per_ben_z_score |-> stats[i].claims_per_ben_z_score,
         is_cost_anomaly |-> stats[i].is_cost_anomaly,
         is_volume_anomaly |-> stats[i].is_volume_anomaly,
         is_ml_anomaly |-> Features(rows[i]) \in flagged,
         fraud_risk_score |->
             FraudRiskScore(stats[i], Features(rows[i]) \in flagged, high[i])]]

\* np.random.choice(len(X), 100000, replace=False) (line 239) with the global
\* generator, which nothing seeds: any SampleSize of the row positions.
SampleChoices(n) == KSubsets(1 .. n, SampleSize)

\* len(X) > 100000 (line 237)
UsesSample(n) == n > SampleSize

(* ------------------------------ inputs -------------------------------- *)

\* chunk_size of main() (line 413)
DefaultChunkSize == 50000

PrimaryHeader ==
    {"BILLING_PROVIDER_NPI_NUM", "SERVICING_PROVIDER_NPI_NUM", "HCPCS_CODE",
     "CLAIM_FROM_MONTH", "TOTAL_UNIQUE_BENEFICIARIES", "TOTAL_CLAIMS", "TOTAL_PAID"}

\* The same columns under their last accepted names, in lower case.
AliasHeader ==
    {"billing_npi", "servicing_npi", "code", "month", "beneficiaries", "claims",
     "paid"}

Headers ==
    {PrimaryHeader, AliasHeader} \cup {PrimaryHeader \ {h} : h \in PrimaryHeader}

File(header, rows) == [exists |-> TRUE, header |-> header, rows |-> rows]

MissingFile == [exists |-> FALSE, header |-> {}, rows |-> <<>>]

SeqsUpTo(S, n) == UNION {[1 .. k -> S] : k \in 0 .. n}

Replicate(x, n) == [i \in 1 .. n |-> x]

\* Valid rows of two providers and two codes, one of them without a code;
\* three of them tie on paid.
ValidRows ==
    {RawRow("p1", "A", Whole(1), Whole(1), Whole(1)),
     RawRow("p1", "B", Whole(1), Whole(2), Whole(3)),
     RawRow("p2", "A", Whole(2), Whole(2), Whole(1)),
     RawRow("p2", NoCode, Whole(1), Whole(1), Whole(1))}

\* One valid row, one that is valid after coercion (1.5 beneficiaries, paid
\* 0.5), and rows failing each condition of the filter, before or after
\* coercion.
MixedRows ==
    {RawRow("p1", "A", Whole(1), Whole(1), Whole(1)),
     RawRow("p2", "B", Halves(3), Whole(2), Halves(1)),
     RawRow(NoNpi, "A", Whole(1), Whole(1), Whole(1)),
     RawRow("p1", "A", Whole(1), Whole(1), Whole(0)),
     RawRow("p1", "A", Whole(1), Whole(1), Text),
     RawRow("p1", "A", Whole(1), Halves(1), Whole(1)),
     RawRow("p1", "B", Whole(1), Whole(-1), Whole(1)),
     RawRow("p2", "A", Whole(0), Whole(1), Whole(1)),
     RawRow("p2", "A", Text, Whole(1), Whole(1))}

GenericInputs ==
    {[file |-> File(PrimaryHeader, rows), chunk_size |-> cs] :
        rows \in SeqsUpTo(ValidRows, MaxRows) \cup SeqsUpTo(MixedRows, MaxRows),
        cs \in {1, 2}}

HeaderInputs ==
    {[file |-> File(h, rows), chunk_size |-> 1] :
        h \in Headers,
        rows \in SeqsUpTo({RawRow("p1", "A", Whole(1), Whole(1), Whole(1))}, 2)}

\* m rows of one code with cost_per_claim c and claims_per_beneficiary 1, then
\* one row of the same code with cost_per_claim 50 c, k claims for its one
\* beneficiary, and the largest paid amount.
OutlierBaseCounts == {1, 2, 4, 10}

\* With BulkBaseCount base rows the outlier's z-score passes 6, where the
\* z contribution is capped: (n - 1) / sqrt(n) >= 6 needs n >= 38.
BulkBaseCount == 37

OutlierRows(m, c, k) ==
    Replicate(RawRow("p1", "A", Whole(1), Whole(1), Whole(c)), m)
        \o <<RawRow("p2", "A", Whole(1), Whole(k), Whole(50 * c * k))>>

OutlierInputs ==
    {[file |-> File(PrimaryHeader, OutlierRows(m, c, k)), chunk_size |-> cs] :
        m \in OutlierBaseCounts, c \in 1 .. MaxUnitCost, k \in CountValues,
        cs \in {3, DefaultChunkSize}}
    \cup {[file |-> File(PrimaryHeader, OutlierRows(BulkBaseCount, 1, k)),
           chunk_size |-> DefaultChunkSize] : k \in {2}}

\* Two chunks of five rows of one provider: the first with a distinct codes,
\* the second with b, o of them shared (one when a or b is 1).
RollupCodes == <<"A", "B", "C", "D", "E", "F", "G", "H", "I", "J">>

RollupChunk(first, count) ==
    [i \in 1 .. 5 |->
        RawRow("p1", RollupCodes[first + (IF i <= count THEN i - 1 ELSE 0)],
               Whole(1), Whole(1), Whole(1))]

RollupInputs ==
    {[file |-> File(PrimaryHeader,
                    RollupChunk(1, a) \o RollupChunk(1 + a - Min(o, Min(a, b)), b)),
      chunk_size |-> 5] :
        a \in 1 .. 5, b \in 1 .. 5, o \in 1 .. 2}

Inputs ==
    GenericInputs \cup HeaderInputs \cup OutlierInputs \cup RollupInputs
        \cup {[file |-> MissingFile, chunk_size |-> DefaultChunkSize]}

(* ------------------------------ state --------------------------------- *)

VARIABLES
    input_file,            \* the CSV file named on the command line
    chunk_size,            \* self.chunk_size
    pc,                    \* where process_file is
    chunk_num,             \* chunks read so far
    total_rows,            \* raw rows read so far
    all_transactions,      \* self.all_transactions
    procedure_benchmarks,  \* self.procedure_benchmarks
    provider_stats,        \* self.provider_stats
    df,                    \* the columns scoring adds, <<>> before scoring
    sample_indices,        \* the row positions the forest was fitted on
    result,                \* what process_file returned, "none" while it runs
    is_rerun,              \* whether this is the second run on the same file
    prev_df,               \* the scored table of the first run
    prev_sample_indices    \* the sample of the first run

vars ==
    <<input_file, chunk_size, pc, chunk_num, total_rows, all_transactions,
      procedure_benchmarks, provider_stats, df, sample_indices, result,
      is_rerun, prev_df, prev_sample_indices>>

accumulators == <<all_transactions, procedure_benchmarks, provider_stats>>

history == <<is_rerun, prev_df, prev_sample_indices>>

EmptyMap == [x \in {} |-> 0]

\* __init__ (lines 34-39) and the call of process_file on some input.
InitOn(inputs) ==
    /\ \E inp \in inputs : input_file = inp.file /\ chunk_size = inp.chunk_size
    /\ pc = "start"
    /\ chunk_num = 0
    /\ total_rows = 0
    /\ all_transactions = <<>>
    /\ procedure_benchmarks = EmptyMap
    /\ provider_stats = EmptyMap
    /\ df = <<>>
    /\ sample_indices = {}
    /\ result = "none"
    /\ is_rerun = FALSE
    /\ prev_df = <<>>
    /\ prev_sample_indices = {}

Init == InitOn(Inputs)

\* Lines 51-65: a missing file ends the run with False.
Start ==
    /\ pc = "start"
    /\ IF input_file.exists
       THEN pc' = "reading" /\ result' = result
       ELSE pc' = "done" /\ result' = "False"
    /\ UNCHANGED <<input_file, chunk_size, chunk_num, total_rows, accumulators,
                   df, sample_indices, history>>

\* The rows pd.read_csv yields as chunk number k (line 67).
ChunkRows(file, size, k) ==
    SubSeq(file.rows, (k - 1) * size + 1, Min(k * size, Len(file.rows)))

MoreChunks == chunk_num * chunk_size < Len(input_file.rows)

\* One pass of the loop body (lines 67-129).
ReadChunk ==
    /\ pc = "reading"
    /\ MoreChunks
    /\ LET raw == ChunkRows(input_file, chunk_size, chunk_num + 1)
           chunk == Preprocess(raw)
       IN  /\ chunk_num' = chunk_num + 1
           /\ total_rows' = total_rows + Len(raw)
           /\ IF SchemaMismatch(input_file.header) \/ chunk = <<>>
              THEN UNCHANGED accumulators
              ELSE /\ all_transactions' = all_transactions \o chunk
                   /\ procedure_benchmarks' =
                          update_benchmarks(procedure_benchmarks, chunk)
                   /\ provider_stats' = update_provider_stats(provider_stats, chunk)
    /\ UNCHANGED <<input_file, chunk_size, pc, df, sample_indices, result, history>>

\* The loop left before the last chunk.
FinishReadingEarly ==
    /\ pc = "reading"
    /\ pc' = "scoring"
    /\ UNCHANGED <<input_file, chunk_size, chunk_num, total_rows, accumulators,
                   df, sample_indices, result, history>>

\* The loop is over (lines 131-138): phase 2 begins.
FinishReading ==
    /\ pc = "reading"
    /\ ~MoreChunks
    /\ pc' = "scoring"
    /\ UNCHANGED <<input_file, chunk_size, chunk_num, total_rows, accumulators,
                   df, sample_indices, result, history>>

\* What the fitted forest flags: IsolationForest is not code of this program,
\* so any set of the feature vectors present; equal vectors get equal flags.
\* With random_state=42 the fit is a function of its training rows: a second
\* run that fits on the same rows flags what the first flagged.
FlagChoices(rows, s) ==
    IF is_rerun /\ s = prev_sample_indices
    THEN {{Features(rows[i]) : i \in {j \in DOMAIN rows : prev_df[j].is_ml_anomaly}}}
    ELSE SUBSET {Features(rows[i]) : i \in DOMAIN rows}

\* _calculate_fraud_scores on pd.DataFrame(self.all_transactions) (lines
\* 138-139, 197-283).  A table built from no records has no columns, and
\* df['procedure_code'] (line 205) raises KeyError: the handler of lines
\* 148-152 returns False.
CalculateFraudScores ==
    /\ pc = "scoring"
    /\ IF all_transactions = <<>>
       THEN /\ pc' = "done"
            /\ result' = "False"
            /\ UNCHANGED <<df, sample_indices>>
       ELSE LET n == Len(all_transactions)
            IN  \E s \in (IF UsesSample(n) THEN SampleChoices(n) ELSE {{}}),
                   stats \in {StatisticalPass(all_transactions) \o <<>>},
                   high \in {[i \in 1 .. n |->
                                 HighSpending(all_transactions, i)] \o <<>>} :
                   \E flagged \in FlagChoices(all_transactions, s) :
                      /\ sample_indices' = s
                      /\ df' = ScoredRows(all_transactions, stats, high, flagged)
                /\ pc' = "reporting"
                /\ result' = result
    /\ UNCHANGED <<input_file, chunk_size, chunk_num, total_rows, accumulators,
                   history>>

\* _generate_reports and the return (lines 141-146); the report files are
\* not state of the detector.
GenerateReports ==
    /\ pc = "reporting"
    /\ pc' = "done"
    /\ result' = "True"
    /\ UNCHANGED <<input_file, chunk_size, chunk_num, total_rows, accumulators,
                   df, sample_indices, history>>

\* main() run again on the same file (lines 405-414): a new detector.
Rerun ==
    /\ pc = "done"
    /\ ~is_rerun
    /\ is_rerun' = TRUE
    /\ prev_df' = df
    /\ prev_sample_indices' = sample_indices
    /\ pc' = "start"
    /\ chunk_num' = 0
    /\ total_rows' = 0
    /\ all_transactions' = <<>>
    /\ procedure_benchmarks' = EmptyMap
    /\ provider_stats' = EmptyMap
    /\ df' = <<>>
    /\ sample_indices' = {}
    /\ result' = "none"
    /\ UNCHANGED <<input_file, chunk_size>>

Next == Start \/ ReadChunk \/ FinishReading \/ CalculateFraudScores \/ GenerateReports

Spec == Init /\ [][Next]_vars

\* Two runs on small files, for what a second run repeats of the first.
RerunInputs ==
    {[file |-> File(PrimaryHeader, rows), chunk_size |-> 2] :
        rows \in SeqsUpTo(ValidRows, MaxRows)}

NextRerun == Next \/ Rerun

SpecRerun == InitOn(RerunInputs) /\ [][NextRerun]_vars

(* ------------------------------ properties ---------------------------- *)

\* The raw rows read so far, and those of chunk k.
ConsumedRaw == SubSeq(input_file.rows, 1, total_rows)

\* A header in which some required field has none of its accepted names.
LacksRequiredField(header) ==
    \E t \in DOMAIN required_cols :
        \A k \in DOMAIN required_cols[t].names :
            required_cols[t].names[k] \notin {Upper(h) : h \in header}

\* A raw row with a provider id and paid, claims and beneficiaries above 0.
PositiveRaw(raw) ==
    /\ raw.billing_npi # NoNpi
    /\ raw.paid.num /\ raw.paid.halves > 0
    /\ raw.claims.num /\ raw.claims.halves > 0
    /\ raw.beneficiaries.num /\ raw.beneficiaries.halves > 0

\* ... whose two counts are still above 0 as integers (at least one whole).
Admitted(raw) ==
    /\ PositiveRaw(raw)
    /\ raw.claims.halves >= 2
    /\ raw.beneficiaries.halves >= 2

\* The raw rows of a sequence that the run should have buffered.
AdmittedOf(rawrows, header) ==
    IF LacksRequiredField(header) THEN <<>> ELSE SelectSeq(rawrows, Admitted)

SetMax(S) == CHOOSE m \in S : \A x \in S : x <= m

\* Whether row i of the scored table got the spending contribution: what is
\* left of its score after the other three contributions.
GotSpending(i) ==
    df[i].fraud_risk_score
        - ZContribution(df[i].is_cost_anomaly, df[i].cost_z_score)
        - ZContribution(df[i].is_volume_anomaly, df[i].claims_per_ben_z_score)
        - MLContribution(df[i].is_ml_anomaly)
    = 1500

\* C1: after _calculate_fraud_scores every row's fraud_risk_score lies in
\* [0, 100] (in hundredths: [0, 10000]), whatever the z-scores, the forest's
\* flags and the spending ranks are.
ScoreInRange ==
    \A i \in DOMAIN df :
        df[i].fraud_risk_score >= 0 /\ df[i].fraud_risk_score <= 10000

\* C1 witness: a row with all four contributions, both z contributions at
\* their cap, scoring exactly 100.
ScoreInRangeWitness ==
    \E i \in DOMAIN df :
        /\ df[i].is_cost_anomaly /\ df[i].cost_z_score >= 600
        /\ df[i].is_volume_anomaly /\ df[i].claims_per_ben_z_score >= 600
        /\ df[i].is_ml_anomaly
        /\ GotSpending(i)
        /\ df[i].fraud_risk_score = 10000

\* C2: chunks of a header that lacks a required field add nothing to the
\* buffer or to either accumulator; what the run holds is what the chunks
\* with every field give, chunk by chunk, as if the others were not there.
MismatchedChunksAddNothing ==
    /\ LacksRequiredField(input_file.header) =>
          /\ all_transactions = <<>>
          /\ procedure_benchmarks = EmptyMap
          /\ provider_stats = EmptyMap
    /\ Len(all_transactions) = Len(AdmittedOf(ConsumedRaw, input_file.header))

\* C2 witness: two chunks with a valid row each were read under a header
\* lacking a field, and nothing was buffered.
MismatchedChunksWitness ==
    /\ LacksRequiredField(input_file.header)
    /\ chunk_num = 2
    /\ \A i \in DOMAIN ConsumedRaw : Admitted(ConsumedRaw[i])
    /\ all_transactions = <<>>

\* C3: a run on an existing file that read rows returns True, however many
\* chunks were skipped and rows dropped.
RunSucceedsDespiteDrops ==
    (pc = "done" /\ input_file.exists /\ total_rows > 0) => result = "True"

\* C4: the buffer holds exactly the rows read so far that have a provider id
\* and paid, claims, beneficiaries above 0 (as the integers the counts are
\* coerced to), with their values; every provider total is a sum over such
\* rows and every benchmark value comes from one.
OnlyValidRowsAdmitted ==
    LET adm == AdmittedOf(ConsumedRaw, input_file.header)
    IN  /\ Len(all_transactions) = Len(adm)
        /\ \A i \in DOMAIN all_transactions :
              LET t == all_transactions[i]
              IN  /\ PositiveRaw(adm[i])
                  /\ t.billing_npi = adm[i].billing_npi /\ t.billing_npi # NoNpi
                  /\ t.paid = adm[i].paid.halves /\ t.paid > 0
                  /\ t.claims = adm[i].claims.halves \div 2 /\ t.claims > 0
                  /\ t.beneficiaries = adm[i].beneficiaries.halves \div 2
                  /\ t.beneficiaries > 0
        /\ DOMAIN provider_stats = {adm[i].billing_npi : i \in DOMAIN adm}
        /\ \A n \in DOMAIN provider_stats :
              LET mine == SelectSeq(adm, LAMBDA r : r.billing_npi = n)
              IN  /\ provider_stats[n].total_spending
                        = SumSeq([i \in DOMAIN mine |-> mine[i].paid.halves])
                  /\ provider_stats[n].total_claims
                        = SumSeq([i \in DOMAIN mine |-> mine[i].claims.halves \div 2])
                  /\ provider_stats[n].total_beneficiaries
                        = SumSeq([i \in DOMAIN mine |->
                                     mine[i].beneficiaries.halves \div 2])
        /\ \A c \in DOMAIN procedure_benchmarks :
              /\ Len(procedure_benchmarks[c].costs)
                    <= Len(SelectSeq(adm, LAMBDA r : r.procedure_code = c))
              /\ \A k \in DOMAIN procedure_benchmarks[c].costs :
                    procedure_benchmarks[c].costs[k] > 0
              /\ \A k \in DOMAIN procedure_benchmarks[c].claims_per_ben :
                    procedure_benchmarks[c].claims_per_ben[k] > 0

\* C4 witness: a finished run that dropped rows and kept others.
OnlyValidRowsWitness ==
    /\ pc = "done" /\ result = "True"
    /\ Len(all_transactions) > 0
    /\ Len(all_transactions) < total_rows
    /\ \E i \in DOMAIN ConsumedRaw :
          PositiveRaw(ConsumedRaw[i]) /\ ~Admitted(ConsumedRaw[i])

\* C5: chunks are read one at a time in file order, each buffered and
\* accumulated in the step that reads it; scoring starts only when no chunk
\* is left, and from then on the buffer and the accumulators never change.
PhaseOrdering ==
    /\ []((pc \in {"scoring", "reporting"} \/ df # <<>>) =>
             (~MoreChunks /\ total_rows = Len(input_file.rows)))
    /\ [][chunk_num' # chunk_num =>
             /\ pc = "reading"
             /\ chunk_num' = chunk_num + 1
             /\ total_rows' = total_rows
                    + Len(ChunkRows(input_file, chunk_size, chunk_num'))
             /\ Len(all_transactions') = Len(all_transactions)
                    + Len(AdmittedOf(ChunkRows(input_file, chunk_size, chunk_num'),
                                     input_file.header))]_vars
    /\ [][accumulators' # accumulators => chunk_num' = chunk_num + 1]_vars
    /\ [][pc \notin {"start", "reading"} => accumulators' = accumulators]_vars

\* C5 witness: scoring is done over a buffer filled from three chunks.
PhaseOrderingWitness ==
    /\ pc = "reporting"
    /\ chunk_num = 3
    /\ Len(all_transactions) = 3
    /\ Len(df) = 3

\* C6: the accumulators reflect the buffer: every provider's totals are the
\* sums over its buffered rows, and for every procedure code, of the buffer
\* or of the benchmarks, the two collections are the multisets of the two
\* ratios of the buffered rows with that code.
AccumulatorsReflectBuffer ==
    /\ DOMAIN provider_stats
          = {all_transactions[i].billing_npi : i \in DOMAIN all_transactions}
    /\ \A n \in DOMAIN provider_stats :
          LET mine == SelectSeq(all_transactions, LAMBDA r : r.billing_npi = n)
          IN  /\ provider_stats[n].total_spending = SumSeq(Column(mine, "paid"))
              /\ provider_stats[n].total_claims = SumSeq(Column(mine, "claims"))
              /\ provider_stats[n].total_beneficiaries
                    = SumSeq(Column(mine, "beneficiaries"))
    /\ DOMAIN procedure_benchmarks
          = {all_transactions[i].procedure_code : i \in DOMAIN all_transactions}
    /\ \A c \in DOMAIN procedure_benchmarks :
          LET mine == SelectSeq(all_transactions, LAMBDA r : r.procedure_code = c)
          IN  /\ BagOf(procedure_benchmarks[c].costs)
                    = BagOf(Column(mine, "cost_per_claim"))
              /\ BagOf(procedure_benchmarks[c].claims_per_ben)
                    = BagOf(Column(mine, "claims_per_beneficiary"))

\* The same with the rows that have no procedure code left out of the
\* benchmark side: what does hold of the code.
AccumulatorsReflectCodedRows ==
    /\ DOMAIN provider_stats
          = {all_transactions[i].billing_npi : i \in DOMAIN all_transactions}
    /\ \A n \in DOMAIN provider_stats :
          LET mine == SelectSeq(all_transactions, LAMBDA r : r.billing_npi = n)
          IN  /\ provider_stats[n].total_spending = SumSeq(Column(mine, "paid"))
              /\ provider_stats[n].total_claims = SumSeq(Column(mine, "claims"))
              /\ provider_stats[n].total_beneficiaries
                    = SumSeq(Column(mine, "beneficiaries"))
    /\ \A c \in DOMAIN procedure_benchmarks \ {NoCode} :
          LET mine == SelectSeq(all_transactions, LAMBDA r : r.procedure_code = c)
          IN  /\ BagOf(procedure_benchmarks[c].costs)
                    = BagOf(Column(mine, "cost_per_claim"))
              /\ BagOf(procedure_benchmarks[c].claims_per_ben)
                    = BagOf(Column(mine, "claims_per_beneficiary"))
    /\ NoCode \in DOMAIN procedure_benchmarks =>
          procedure_benchmarks[NoCode] = [costs |-> <<>>, claims_per_ben |-> <<>>]

\* The distinct procedure codes provider n has among the admitted rows of
\* chunk k.
DistinctCodesInChunk(n, k) ==
    LET adm == AdmittedOf(ChunkRows(input_file, chunk_size, k), input_file.header)
    IN  Cardinality({adm[i].procedure_code :
                        i \in {j \in DOMAIN adm : adm[j].billing_npi = n}}
                    \ {NoCode})

\* The distinct procedure codes provider n has over all chunks read.
DistinctCodesOverall(n) ==
    LET adm == AdmittedOf(ConsumedRaw, input_file.header)
    IN  Cardinality({adm[i].procedure_code :
                        i \in {j \in DOMAIN adm : adm[j].billing_npi = n}}
                    \ {NoCode})

\* C7: after every chunk a provider's unique_procedures is the largest
\* number of distinct procedure codes it has in any one chunk read so far,
\* and it never decreases.
UniqueProceduresIsChunkMax ==
    /\ [](\A n \in DOMAIN provider_stats :
             provider_stats[n].unique_procedures
                = SetMax({DistinctCodesInChunk(n, k) : k \in 1 .. chunk_num}))
    /\ [][\A n \in DOMAIN provider_stats :
             /\ n \in DOMAIN provider_stats'
             /\ provider_stats'[n].unique_procedures
                   >= provider_stats[n].unique_procedures]_vars

\* C7 witness: chunks with 3 and 5 distinct codes, 2 shared, give 5; the sum
\* is 8 and the distinct count over both chunks 6.
UniqueProceduresWitness ==
    /\ pc = "scoring"
    /\ chunk_num = 2
    /\ "p1" \in DOMAIN provider_stats
    /\ DistinctCodesInChunk("p1", 1) = 3
    /\ DistinctCodesInChunk("p1", 2) = 5
    /\ DistinctCodesOverall("p1") = 6
    /\ provider_stats["p1"].unique_procedures = 5

\* C8: a second run over the same file samples the same rows and gives every
\* row the same is_ml_anomaly flag as the first.
RerunRepeatsMLPass ==
    (is_rerun /\ df # <<>>) =>
        /\ sample_indices = prev_sample_indices
        /\ \A i \in DOMAIN df : df[i].is_ml_anomaly = prev_df[i].is_ml_anomaly

\* The part of C8 that holds: a second run that trains on the whole table
\* repeats the first.
RerunRepeatsWithoutSampling ==
    (is_rerun /\ df # <<>> /\ ~UsesSample(Len(all_transactions))) =>
        /\ sample_indices = prev_sample_indices
        /\ \A i \in DOMAIN df : df[i].is_ml_anomaly = prev_df[i].is_ml_anomaly

\* Exactly 5 buffered rows of one procedure code, the first four with the
\* same cost_per_claim c > 0 and the fifth with 50 c, scored.
SingleOutlierScored ==
    /\ Len(all_transactions) = 5
    /\ Len(df) = 5
    /\ all_transactions[1].procedure_code # NoCode
    /\ \A i \in 1 .. 5 :
          all_transactions[i].procedure_code = all_transactions[1].procedure_code
    /\ all_transactions[1].cost_per_claim > 0
    /\ \A i \in 1 .. 4 :
          all_transactions[i].cost_per_claim = all_transactions[1].cost_per_claim
    /\ all_transactions[5].cost_per_claim = 50 * all_transactions[1].cost_per_claim

\* C9 as stated: in the single-outlier population the fifth row alone is a
\* cost anomaly, and its score is at least 25.
SingleOutlierIsFlagged ==
    SingleOutlierScored =>
        /\ df[5].is_cost_anomaly
        /\ \A i \in 1 .. 4 : ~df[i].is_cost_anomaly
        /\ df[5].fraud_risk_score >= 2500

\* C9 amended: in the single-outlier population no row is a cost anomaly:
\* the fifth row's z-score is 4/sqrt(5) (1.78 in truncated hundredths), the
\* others' -1/sqrt(5) (-0.44), and the fifth row's score holds nothing but
\* its ML and spending contributions.
SingleOutlierIsNotFlagged ==
    SingleOutlierScored =>
        /\ \A i \in 1 .. 5 : ~df[i].is_cost_anomaly /\ ~df[i].is_volume_anomaly
        /\ df[5].cost_z_score = 178
        /\ \A i \in 1 .. 4 : df[i].cost_z_score = -44
        /\ df[5].fraud_risk_score
              = (IF df[5].is_ml_anomaly THEN 2500 ELSE 0)
                + (IF \A i \in 1 .. 4 :
                         all_transactions[i].paid < all_transactions[5].paid
                   THEN 1500 ELSE 0)

\* C9 witness: the single-outlier population scored, the forest flagging
\* nothing in it.
SingleOutlierWitness ==
    /\ SingleOutlierScored
    /\ \A i \in 1 .. 5 : ~df[i].is_ml_anomaly
    /\ df[5].fraud_risk_score = 1500

\* The k-th smallest (k from 0) of a column.
KthSmallest(xs, k) ==
    CHOOSE v \in Range(xs) :
        LET less == Cardinality({j \in DOMAIN xs : xs[j] < v})
            same == Cardinality({j \in DOMAIN xs : xs[j] = v})
        IN  less <= k /\ k < less + same

\* 20 times the 95th percentile of a column, by linear interpolation between
\* the two nearest order statistics (position 0.95 (n - 1)).
P95Times20(xs) ==
    LET pos == 19 * (Len(xs) - 1)
        lo == KthSmallest(xs, pos \div 20)
        hi == IF pos % 20 = 0 THEN lo ELSE KthSmallest(xs, pos \div 20 + 1)
    IN  20 * lo + (pos % 20) * (hi - lo)

PaidColumn == Column(all_transactions, "paid")

AtOrAboveP95(i) == 20 * PaidColumn[i] >= P95Times20(PaidColumn)

PaidIsUnique(i) == \A j \in DOMAIN PaidColumn : PaidColumn[j] = PaidColumn[i] => j = i

\* C10 as stated: a row gets the 15 points if and only if its paid amount is
\* at or above the 95th percentile of the population's paid amounts.
SpendingIffAtOrAboveP95 ==
    \A i \in DOMAIN df : GotSpending(i) <=> AtOrAboveP95(i)

\* C10 amended: a row gets the 15 points only if its paid amount is at or
\* above the 95th percentile, and a row whose paid amount no other row has
\* gets them if and only if it is; rows tied on paid share one rank, the
\* mean of theirs, and may be at the percentile without getting the points.
SpendingOnlyIfAtOrAboveP95 ==
    \A i \in DOMAIN df :
        /\ GotSpending(i) => AtOrAboveP95(i)
        /\ PaidIsUnique(i) => (GotSpending(i) <=> AtOrAboveP95(i))

\* C10 witness: one row got the points, and another, tied with others at
\* the percentile, did not.
SpendingWitness ==
    /\ \E i \in DOMAIN df : GotSpending(i) /\ PaidIsUnique(i)
    /\ \E j \in DOMAIN df : ~GotSpending(j) /\ AtOrAboveP95(j) /\ ~PaidIsUnique(j)

====
